---- MODULE Spec2Model ----
(***************************************************************************)
(* Model of src/model.py: ConvolutionBlock (dynamic padding + 3x3 conv)    *)
(* and ModelFromDecoding (decoding of an encoding string into a layer      *)
(* list, and the forward pass with its per-call classification head).      *)
(* Tensors are modelled by their shape <<N, C, H, W>> and device; strings  *)
(* are sequences of one-character strings.                                 *)
(***************************************************************************)
EXTENDS Integers, Sequences, FiniteSets, TLC

VARIABLES
    enc,      \* the encoding string the models are built from
    device,   \* the device tag given to the constructor
    layers,   \* heap of layer objects: layers[id] is the layer with identity id
    lists,    \* heap of list objects: lists[ref] is the sequence of layer ids it holds
    models,   \* models[m]: the attributes of model object m
    pc,       \* pc[m]: "new", "built" (__init__ returned) or "failed" (__init__ raised)
    raised,   \* raised[m]: the exception that ended the construction of m, or "none"
    last,     \* the record of the latest forward call
    changed   \* the latest forward call followed a successful call with another flattened dimension

vars == <<enc, device, layers, lists, models, pc, raised, last, changed>>

(* ----------------------------- bounds --------------------------------- *)
MaxTokens == 3
MaxHeight == 3
MaxWidth == 2

(* ------------------------ program constants --------------------------- *)
StemIn == 3
StemOut == 16
NumClasses == 10

(* ------------------------------ inputs -------------------------------- *)
Digits == {"0", "1", "2", "3", "4", "5", "6", "7", "8", "9"}

\* The tokens encodings are built from: integer literals (0 included),
\* float literals below, at and above the 0.5 threshold, the empty token
\* and malformed tokens.
Tokens ==
    { <<>>,
      <<"0">>, <<"3", "2">>, <<"6", "4">>,
      <<"0", ".", "5">>, <<"0", ".", "9">>, <<".", "4">>,
      <<"a", "b", "c">>, <<".">> }

\* the device the models are placed on; input tensors arrive on "cpu"
Devices == {"cuda"}

Models == {1, 2}

Batches == {1, 2}

InChannels == {3}

RECURSIVE Join(_)
Join(ts) ==
    IF ts = <<>> THEN <<>>
    ELSE IF Len(ts) = 1 THEN ts[1]
    ELSE ts[1] \o <<"-">> \o Join(Tail(ts))

Encodings ==
    { Join(ts) : ts \in UNION { [1..k -> Tokens] : k \in 0..MaxTokens } }

\* the tokens of the encodings forward evaluation is run on
FwdTokens == { <<"0">>, <<"3", "2">>, <<"6", "4">>, <<"0", ".", "9">>, <<"a", "b", "c">> }

FwdEncodings ==
    { Join(ts) : ts \in UNION { [1..k -> FwdTokens] : k \in 0..MaxTokens } }

InputTensors ==
    { [shape |-> <<n, c, h, w>>, device |-> "cpu"] :
        n \in Batches, c \in InChannels, h \in 1..MaxHeight, w \in 1..MaxWidth }

(* ----------------------- Python string helpers ------------------------ *)
Contains(s, c) == \E i \in 1..Len(s) : s[i] = c

FirstIndex(s, c) == CHOOSE i \in 1..Len(s) : s[i] = c /\ \A j \in 1..(i-1) : s[j] # c

\* str.split(sep): always at least one token; "" splits to [""].
RECURSIVE split(_, _)
split(s, sep) ==
    IF ~Contains(s, sep) THEN <<s>>
    ELSE LET i == FirstIndex(s, sep)
         IN  <<SubSeq(s, 1, i - 1)>> \o split(SubSeq(s, i + 1, Len(s)), sep)

DigitVal(c) ==
    CASE c = "0" -> 0 [] c = "1" -> 1 [] c = "2" -> 2 [] c = "3" -> 3 [] c = "4" -> 4
      [] c = "5" -> 5 [] c = "6" -> 6 [] c = "7" -> 7 [] c = "8" -> 8 [] c = "9" -> 9

RECURSIVE DigitsVal(_, _)
DigitsVal(s, acc) ==
    IF s = <<>> THEN acc ELSE DigitsVal(Tail(s), 10 * acc + DigitVal(Head(s)))

RECURSIVE Pow10(_)
Pow10(k) == IF k = 0 THEN 1 ELSE 10 * Pow10(k - 1)

\* int(m): a non-empty run of decimal digits, anything else raises ValueError.
int(m) ==
    IF Len(m) >= 1 /\ \A i \in 1..Len(m) : m[i] \in Digits
    THEN [ok |-> TRUE, kind |-> "int", val |-> DigitsVal(m, 0)]
    ELSE [ok |-> FALSE, kind |-> "ValueError"]

\* float(m) for a token holding a '.': digits around exactly one point, at
\* least one digit; the value is kept exactly as num / den.
float(m) ==
    LET dots   == {i \in 1..Len(m) : m[i] = "."}
        others == {i \in 1..Len(m) : m[i] # "."}
    IN  IF Cardinality(dots) = 1 /\ others # {} /\ \A i \in others : m[i] \in Digits
        THEN LET d    == CHOOSE i \in dots : TRUE
                 ip   == SubSeq(m, 1, d - 1)
                 fp   == SubSeq(m, d + 1, Len(m))
             IN  [ok |-> TRUE, kind |-> "float",
                  num |-> DigitsVal(ip \o fp, 0), den |-> Pow10(Len(fp))]
        ELSE [ok |-> FALSE, kind |-> "ValueError"]

\* m = float(m) if '.' in m else int(m)
parse(m) == IF Contains(m, ".") THEN float(m) ELSE int(m)

\* m > 0.5 on the parsed float
GreaterThanHalf(f) == 2 * f.num > f.den

(* --------------------------- ConvolutionBlock ------------------------- *)
\* ConvolutionBlock.__init__: 3x3 filter, stride 1, convolution padding 1.
ConvolutionBlock(c_in, c_out, dev) ==
    [type |-> "ConvolutionBlock", c_in |-> c_in, c_out |-> c_out, device |-> dev,
     filter_size |-> <<3, 3>>, conv_stride |-> <<1, 1>>, conv_padding |-> 1]

Max(a, b) == IF a >= b THEN a ELSE b

\* total padding along one axis (the stride-aware formula of padding())
pad_along(in_size, filter, stride) ==
    IF in_size % stride = 0
    THEN Max(filter - stride, 0)
    ELSE Max(filter - (in_size % stride), 0)

\* a padding that pads nothing ("valid" padding)
padding_none(self, x) ==
    [x |-> [shape |-> x.shape, device |-> self.device], pads |-> <<0, 0, 0, 0>>]

\* ConvolutionBlock.padding: the padded tensor and (left, right, top, bottom)
padding(self, x) ==
    LET in_height        == x.shape[3]
        in_width         == x.shape[4]
        filter_height    == 3
        filter_width     == 3
        strides          == <<0, 1, 1>>
        pad_along_height == pad_along(in_height, filter_height, strides[2])
        pad_along_width  == pad_along(in_width, filter_width, strides[3])
        pad_top          == pad_along_height \div 2
        pad_bottom       == pad_along_height - pad_top
        pad_left         == pad_along_width \div 2
        pad_right        == pad_along_width - pad_left
    IN  [x |-> [shape |-> <<x.shape[1], x.shape[2],
                            in_height + pad_top + pad_bottom,
                            in_width + pad_left + pad_right>>,
                device |-> self.device],
         pads |-> <<pad_left, pad_right, pad_top, pad_bottom>>]

\* output size of a convolution or pooling window along one axis
window_out(size, kernel, stride, pad) == ((size + 2 * pad - kernel) \div stride) + 1

\* ConvolutionBlock.forward: pad, convolve, normalise, activate.  The
\* convolution rejects an input whose channel count is not c_in and a
\* weight without output channels.
ConvolutionBlock_forward(self, x) ==
    LET moved == [shape |-> x.shape, device |-> self.device]
        p     == padding(self, moved)
        px    == p.x
    IN  IF px.shape[2] # self.c_in \/ self.c_out < 1
        THEN [status |-> "RuntimeError", x |-> px, pads |-> p.pads]
        ELSE [status |-> "ok",
              x |-> [shape |-> <<px.shape[1], self.c_out,
                                 window_out(px.shape[3], self.filter_size[1],
                                            self.conv_stride[1], self.conv_padding),
                                 window_out(px.shape[4], self.filter_size[2],
                                            self.conv_stride[2], self.conv_padding)>>,
                     device |-> self.device],
              pads |-> p.pads]

(* ------------------------------ pooling ------------------------------- *)
MaxPool2d(kernel_size, stride, pad) ==
    [type |-> "MaxPool2d", kernel_size |-> kernel_size, stride |-> stride, padding |-> pad]

AvgPool2d(kernel_size, stride, pad) ==
    [type |-> "AvgPool2d", kernel_size |-> kernel_size, stride |-> stride, padding |-> pad]

\* pooling with no padding
pool_out_unpadded(size, kernel, stride, pad) == window_out(size, kernel, stride, 0)

pool_out(size, kernel, stride, pad) == window_out(size, kernel, stride, pad)

Pool_forward(self, x) ==
    LET h == pool_out(x.shape[3], self.kernel_size[1], self.stride[1], self.padding[1])
        w == pool_out(x.shape[4], self.kernel_size[2], self.stride[2], self.padding[2])
    IN  IF h < 1 \/ w < 1
        THEN [status |-> "RuntimeError", x |-> x, pads |-> <<0, 0, 0, 0>>]
        ELSE [status |-> "ok",
              x |-> [shape |-> <<x.shape[1], x.shape[2], h, w>>, device |-> x.device],
              pads |-> <<0, 0, 0, 0>>]

Layer_forward(self, x) ==
    IF self.type = "ConvolutionBlock"
    THEN ConvolutionBlock_forward(self, x)
    ELSE Pool_forward(self, x)

(* --------------------------- ModelFromDecoding ------------------------ *)
\* a stem reading one input channel
Stem_grey(dev) == ConvolutionBlock(1, StemOut, dev)

\* the stem block _decode always creates first
Stem(dev) == ConvolutionBlock(StemIn, StemOut, dev)

\* prev left as it was after a convolution block
ThreadPrev_stale(prev, m) == prev

\* prev = m after a convolution block
ThreadPrev(prev, m) == m

\* max-pooling from 0.5 on
PoolFor_ge(self, f) ==
    IF 2 * f.num >= f.den
    THEN MaxPool2d(self.kernel_size, self.pool_stride, <<1, 1>>)
    ELSE AvgPool2d(self.kernel_size, self.pool_stride, <<1, 1>>)

\* the pooling layer of a float token: max-pooling above 0.5, else average
PoolFor(self, f) ==
    IF GreaterThanHalf(f)
    THEN MaxPool2d(self.kernel_size, self.pool_stride, <<1, 1>>)
    ELSE AvgPool2d(self.kernel_size, self.pool_stride, <<1, 1>>)

\* self.architecture.append(layer): the layer is a new object of the layer
\* heap, the list self.architecture refers to grows by a reference to it.
AppendLayer(st, self, layer) ==
    LET id == Len(st.layers) + 1
    IN  [layers |-> Append(st.layers, layer),
         lists  |-> [st.lists EXCEPT ![self.architecture] = Append(@, id)]]

\* the loop of _decode over the tokens, from token i on
RECURSIVE DecodeLoop(_, _, _, _, _)
DecodeLoop(toks, i, prev, st, self) ==
    IF i > Len(toks)
    THEN [status |-> "ok", layers |-> st.layers, lists |-> st.lists]
    ELSE LET tok == toks[i]
         IN  IF tok = <<"-">>
             THEN DecodeLoop(toks, i + 1, prev, st, self)
             ELSE LET m == parse(tok)
                  IN  IF ~m.ok
                      THEN [status |-> m.kind, layers |-> st.layers, lists |-> st.lists]
                      ELSE IF m.kind = "int"
                      THEN DecodeLoop(toks, i + 1, ThreadPrev(prev, m.val),
                                      AppendLayer(st, self,
                                                  ConvolutionBlock(prev, m.val, self.device)),
                                      self)
                      ELSE DecodeLoop(toks, i + 1, prev,
                                      AppendLayer(st, self, PoolFor(self, m)), self)

\* ModelFromDecoding._decode
_decode(self, st) ==
    LET prev == StemOut
    IN  DecodeLoop(split(self.enc, "-"), 1, prev,
                   AppendLayer(st, self, Stem(self.device)), self)

\* one list object shared by every model (a class-level list)
NewList_shared(ls) ==
    IF ls = <<>> THEN [lists |-> <<<<>>>>, ref |-> 1] ELSE [lists |-> ls, ref |-> 1]

\* self.architecture = [] : a fresh list object
NewList(ls) == [lists |-> Append(ls, <<>>), ref |-> Len(ls) + 1]

\* ModelFromDecoding.__init__: the object as far as it got, the heaps, and
\* "ok" or the exception that ended the construction.
ModelFromDecoding(encoding, dev, ls0, ly0) ==
    LET nl    == NewList(ls0)
        self0 == [device |-> dev, architecture |-> nl.ref, enc |-> encoding,
                  kernel_size |-> <<2, 2>>, pool_stride |-> <<2, 2>>]
        d     == _decode(self0, [layers |-> ly0, lists |-> nl.lists])
    IN  IF d.status # "ok"
        THEN [status |-> d.status, self |-> self0, layers |-> d.layers, lists |-> d.lists]
        ELSE [status |-> "ok",
              self   |-> [device |-> dev, architecture |-> nl.ref, enc |-> encoding,
                          kernel_size |-> <<2, 2>>, pool_stride |-> <<2, 2>>,
                          softmax |-> [type |-> "Softmax", dim |-> 0],
                          net |-> d.lists[nl.ref]],
              layers |-> d.layers, lists |-> d.lists]

\* the trace entry of one layer: its input, its padding and its output
TraceEntry(id, x, r) ==
    [layer |-> id, input |-> x.shape, pads |-> r.pads, output |-> r.x.shape,
     status |-> r.status]

\* self.net(x): the layers applied in order, with the trace of the layers run
RECURSIVE Sequential(_, _, _, _, _)
SequentialStep(net, i, x, ly, trace, r) ==
    IF r.status # "ok"
    THEN [status |-> r.status, x |-> r.x, trace |-> Append(trace, TraceEntry(net[i], x, r))]
    ELSE Sequential(net, i + 1, r.x, ly, Append(trace, TraceEntry(net[i], x, r)))

Sequential(net, i, x, ly, trace) ==
    IF i > Len(net)
    THEN [status |-> "ok", x |-> x, trace |-> trace]
    ELSE SequentialStep(net, i, x, ly, trace, Layer_forward(ly[net[i]], x))

\* the flattened dimension without the width
FlatDim_noW(shape) == shape[2] * shape[3]

\* dim = x.shape[1] * x.shape[2] * x.shape[3]
FlatDim(shape) == shape[2] * shape[3] * shape[4]

\* x.view(-1, dim)
view(shape, dim) ==
    LET numel == shape[1] * shape[2] * shape[3] * shape[4]
    IN  IF dim < 1 \/ numel % dim # 0
        THEN [status |-> "RuntimeError", shape |-> shape]
        ELSE [status |-> "ok", shape |-> <<numel \div dim, dim>>]

Linear(in_features, out_features) ==
    [type |-> "Linear", in_features |-> in_features, out_features |-> out_features]

Failed(self, status, trace) ==
    [self |-> self, input |-> <<>>, status |-> status, trace |-> trace, features |-> <<>>,
     dim |-> 0, fc |-> [type |-> "None"], out |-> <<>>]

\* lines 126-130 of forward, on the output r of the layer stack
Classify(self, x, r) ==
    IF r.status # "ok" THEN Failed(self, r.status, r.trace)
    ELSE LET dim == FlatDim(r.x.shape)
             v   == view(r.x.shape, dim)
         IN  IF v.status # "ok" THEN Failed(self, v.status, r.trace)
             ELSE LET fc == Linear(v.shape[2], NumClasses)
                  IN  IF v.shape[2] # fc.in_features
                      THEN Failed(self, "RuntimeError", r.trace)
                      ELSE [self |-> self, input |-> x.shape, status |-> "ok",
                            trace |-> r.trace, features |-> r.x.shape, dim |-> dim,
                            fc |-> fc, out |-> <<v.shape[1], fc.out_features>>]

\* a forward that builds the head once, keeps it in the model and rejects a
\* later call with another flattened dimension
forward_cached(self, x, ly) ==
    LET r == Classify(self, x, Sequential(self.net, 1, x, ly, <<>>))
    IN  IF r.status # "ok" THEN r
        ELSE IF "fc" \in DOMAIN self
        THEN IF self.fc.in_features # r.dim
             THEN Failed(self, "RuntimeError", r.trace)
             ELSE [r EXCEPT !.fc = self.fc]
        ELSE [r EXCEPT !.self = [a \in DOMAIN self \cup {"fc"} |->
                                    IF a = "fc" THEN r.fc ELSE self[a]]]

\* ModelFromDecoding.forward: the object after the call and the call's record
forward(self, x, ly) == Classify(self, x, Sequential(self.net, 1, x, ly, <<>>))

(* --------------------------- state machine ---------------------------- *)
NoObject == [type |-> "None"]

\* the record of the latest forward call: self holds the model called
NoCall == [self |-> 0, input |-> <<>>, status |-> "none"]

InitObjects ==
    /\ device \in Devices
    /\ layers = <<>>
    /\ lists = <<>>
    /\ models = [m \in Models |-> NoObject]
    /\ pc = [m \in Models |-> "new"]
    /\ raised = [m \in Models |-> "none"]
    /\ last = NoCall
    /\ changed = FALSE

\* decoding: any encoding, the models constructed one after the other
InitDecode == enc \in Encodings /\ InitObjects

\* forward evaluation: the encodings of FwdTokens, model 1 constructed and called
InitForward == enc \in FwdEncodings /\ InitObjects

\* model m is constructed: ModelFromDecoding(enc, device)
Construct(m) ==
    /\ pc[m] = "new"
    /\ LET r == ModelFromDecoding(enc, device, lists, layers)
       IN  /\ layers' = r.layers
           /\ lists' = r.lists
           /\ models' = [models EXCEPT ![m] = r.self]
           /\ pc' = [pc EXCEPT ![m] = IF r.status = "ok" THEN "built" ELSE "failed"]
           /\ raised' = [raised EXCEPT ![m] = IF r.status = "ok" THEN "none" ELSE r.status]
    /\ UNCHANGED <<enc, device, last, changed>>

\* model m is called on the tensor x
Forward(m, x) ==
    /\ pc[m] = "built"
    /\ LET r == forward(models[m], x, layers)
       IN  /\ models' = [models EXCEPT ![m] = r.self]
           /\ last' = [r EXCEPT !.self = m, !.input = x.shape]
           /\ changed' = (last.status = "ok" /\ r.status = "ok" /\ last.dim # r.dim)
    /\ UNCHANGED <<enc, device, layers, lists, pc, raised>>

NextDecode == \E m \in Models : Construct(m)

NextForward ==
    \/ Construct(1)
    \/ \E x \in InputTensors : Forward(1, x)

SpecDecode == InitDecode /\ [][NextDecode]_vars

SpecForward == InitForward /\ [][NextForward]_vars

(* ------------------------- reading the state -------------------------- *)
Built(m) == pc[m] = "built"

\* the layer ids held by the list self.architecture of model m
Arch(m) == lists[models[m].architecture]

\* the layers of model m, in list order
Structure(m) == [i \in 1..Len(Arch(m)) |-> layers[Arch(m)[i]]]

IsConv(l) == l.type = "ConvolutionBlock"

IsPool(l) == l.type \in {"MaxPool2d", "AvgPool2d"}

EncTokens == split(enc, "-")

IsIntToken(t) == t # <<>> /\ \A i \in 1..Len(t) : t[i] \in Digits

IsFloatToken(t) ==
    /\ Cardinality({i \in 1..Len(t) : t[i] = "."}) = 1
    /\ \A i \in 1..Len(t) : t[i] \in Digits \cup {"."}
    /\ \E i \in 1..Len(t) : t[i] \in Digits

T32 == <<"3", "2">>
T64 == <<"6", "4">>
T05 == <<"0", ".", "5">>
T09 == <<"0", ".", "9">>

(* ------------------------------- C1 ----------------------------------- *)
\* the (c_in, c_out) pairs of the convolution blocks of model m, in list order
ConvPairs(m) ==
    LET convs == SelectSeq(Structure(m), IsConv)
    IN  [i \in 1..Len(convs) |-> <<convs[i].c_in, convs[i].c_out>>]

\* the values of the integer tokens of the encoding, left to right
IntValues ==
    LET ints == SelectSeq(EncTokens, IsIntToken)
    IN  [i \in 1..Len(ints) |-> DigitsVal(ints[i], 0)]

\* C1: for an encoding of integer and float tokens, the convolution blocks
\* after the stem have, in list order, the channel pairs 16->a, a->b, b->c, ...
\* where a, b, c, ... are the integer tokens left to right; float tokens
\* between them do not change the carried channel count.
C1_ChannelChain ==
    \A m \in Models :
        Built(m) =>
            /\ Len(ConvPairs(m)) = Len(IntValues) + 1
            /\ \A k \in 1..Len(IntValues) :
                   ConvPairs(m)[k + 1] =
                       <<(IF k = 1 THEN 16 ELSE IntValues[k - 1]), IntValues[k]>>

\* two integer tokens with a pooling token between them have been decoded
C1_Witness == \E m \in Models : Built(m) /\ enc = Join(<<T32, T09, T64>>)

(* ------------------------------- C2 ----------------------------------- *)
\* C2: after construction the first element of the decoded layer list (and
\* of the sequential stack) is a ConvolutionBlock 3 -> 16, whatever the
\* encoding holds.
C2_StemFirst ==
    \A m \in Models :
        Built(m) =>
            /\ Len(Arch(m)) >= 1
            /\ IsConv(Structure(m)[1])
            /\ Structure(m)[1].c_in = 3
            /\ Structure(m)[1].c_out = 16
            /\ models[m].net[1] = Arch(m)[1]

\* a model built from an encoding with three tokens
C2_Witness == \E m \in Models : Built(m) /\ Len(Arch(m)) = 4 /\ Len(EncTokens) = 3

(* ------------------------------- C3 ----------------------------------- *)
NonEmptyTokens == SelectSeq(EncTokens, LAMBDA t : t # <<>>)

\* C3: empty tokens are skipped without error and without a layer: an
\* encoding whose non-empty tokens are all integer or float literals (the
\* empty string included) is decoded, to the stem followed by one layer per
\* non-empty token.
C3_EmptyTokensSkipped ==
    \A m \in Models :
        (/\ pc[m] # "new"
         /\ \E i \in 1..Len(EncTokens) : EncTokens[i] = <<>>
         /\ \A i \in 1..Len(NonEmptyTokens) :
                IsIntToken(NonEmptyTokens[i]) \/ IsFloatToken(NonEmptyTokens[i]))
        => /\ Built(m)
           /\ Len(Arch(m)) = 1 + Len(NonEmptyTokens)

(* ------------------------------- C4 ----------------------------------- *)
Malformed(t) == t # <<>> /\ ~IsIntToken(t) /\ ~IsFloatToken(t)

\* C4: when a token is neither an integer nor a float literal, decoding
\* ends in an error and the layer list is not partially mutated: it holds
\* neither the stem nor the layers of the tokens before the malformed one.
C4_NoPartialMutation ==
    \A m \in Models :
        (pc[m] # "new" /\ \E i \in 1..Len(EncTokens) : Malformed(EncTokens[i]))
        => /\ pc[m] = "failed"
           /\ raised[m] # "none"
           /\ Arch(m) = <<>>

(* ------------------------------- C5 ----------------------------------- *)
\* the value of a float token is above one half
AboveHalf(t) ==
    LET d  == CHOOSE i \in 1..Len(t) : t[i] = "."
        fp == SubSeq(t, d + 1, Len(t))
    IN  2 * DigitsVal(SubSeq(t, 1, d - 1) \o fp, 0) > Pow10(Len(fp))

\* C5: in a decoded model every token with a decimal point gave exactly one
\* pooling layer with kernel 2x2, stride 2x2 and padding 1x1, max-pooling
\* iff the token's value is strictly above 0.5 and average-pooling
\* otherwise; a token without a decimal point gave no pooling layer.
C5_PoolingTokens ==
    \A m \in Models :
        Built(m) =>
            /\ Len(Arch(m)) = 1 + Len(EncTokens)
            /\ \A i \in 1..Len(EncTokens) :
                   LET t == EncTokens[i]
                       l == Structure(m)[i + 1]
                   IN  IF Contains(t, ".")
                       THEN /\ IsPool(l)
                            /\ l.kernel_size = <<2, 2>>
                            /\ l.stride = <<2, 2>>
                            /\ l.padding = <<1, 1>>
                            /\ (l.type = "MaxPool2d") <=> AboveHalf(t)
                       ELSE ~IsPool(l)

\* tokens at, above and below the threshold have been decoded
C5_Witness == \E m \in Models : Built(m) /\ enc = Join(<<T05, T09, <<".", "4">>>>)

(* ------------------------------- C8 ----------------------------------- *)
\* the set of layer ids a list holds
Ids(seq) == {seq[i] : i \in 1..Len(seq)}

\* C8: two constructions from the same encoding and device give layer lists
\* of the same structure (length, layer types, channel counts) that share
\* no list object and no layer object.
C8_Idempotent ==
    (Built(1) /\ Built(2)) =>
        /\ Structure(1) = Structure(2)
        /\ Len(Arch(1)) = 1 + Len(EncTokens)
        /\ models[1].architecture # models[2].architecture
        /\ Ids(Arch(1)) \cap Ids(Arch(2)) = {}
        /\ Ids(models[1].net) \cap Ids(models[2].net) = {}
        /\ models[1].net = Arch(1) /\ models[2].net = Arch(2)

\* both models have been built from an encoding with convolution and pooling
C8_Witness == Built(1) /\ Built(2) /\ enc = Join(<<T32, T09, T64>>)

(* ------------------------------- C6 ----------------------------------- *)
Called == last.status # "none"

\* the model called is built from tokens that parse, every integer token positive
ValidModel(m) == Built(m) /\ \A i \in 1..Len(Arch(m)) :
                               IsConv(Structure(m)[i]) => Structure(m)[i].c_out >= 1

\* C6: on a valid encoding and an input [N, 3, H, W], forward returns a
\* tensor of shape [N, 10]: the output [N, C, H', W'] of the layer stack is
\* flattened to [N, C*H'*W'] and projected by a head of input width
\* C*H'*W' onto 10 classes.
C6_OutputShape ==
    (Called /\ ValidModel(last.self) /\ last.input[2] = 3) =>
        /\ last.status = "ok"
        /\ last.features[1] = last.input[1]
        /\ last.fc.in_features = last.features[2] * last.features[3] * last.features[4]
        /\ last.fc.out_features = 10
        /\ last.out = <<last.input[1], 10>>

\* a batch of two went through convolution, pooling and convolution
C6_Witness ==
    /\ Called /\ last.status = "ok" /\ last.input = <<2, 3, 3, 2>>
    /\ enc = Join(<<T32, T09, T64>>)

(* ------------------------------- C7 ----------------------------------- *)
\* C7: every ConvolutionBlock run pads 1 before and 1 after on each axis
\* (2 in total), and turns [N, c_in, H, W] into [N, c_out, H+2, W+2].
C7_PaddingLaw ==
    Called =>
        \A i \in 1..Len(last.trace) :
            LET e == last.trace[i]
                l == layers[e.layer]
            IN  IsConv(l) =>
                    /\ e.pads = <<1, 1, 1, 1>>
                    /\ e.status = "ok" =>
                           e.output = <<e.input[1], l.c_out, e.input[3] + 2, e.input[4] + 2>>

\* three convolution blocks ran on an input with H # W
C7_Witness ==
    /\ Called /\ last.status = "ok" /\ last.input[3] # last.input[4]
    /\ Len(SelectSeq(last.trace, LAMBDA e : IsConv(layers[e.layer]))) >= 3

(* ------------------------------- C9 ----------------------------------- *)
\* the topology of model m: its layer list, its stack and their layers
Topology(m) == <<models[m], Structure(m), [i \in 1..Len(models[m].net) |-> layers[models[m].net[i]]]>>

\* the head is built in each call from that call's flattened dimension and
\* is not stored in the model, so a call succeeds whatever the flattened
\* dimension of the calls before it
C9_HeadPerCall ==
    (Called /\ ValidModel(last.self)) =>
        /\ last.status = "ok"
        /\ last.fc.in_features = last.dim
        /\ last.dim = last.features[2] * last.features[3] * last.features[4]
        /\ DOMAIN models[last.self] =
               {"device", "architecture", "enc", "kernel_size", "pool_stride",
                "softmax", "net"}

C9_TopologyFrozen ==
    [][Built(1) => (Built(1)' /\ Topology(1)' = Topology(1))]_vars

\* C9: every step leaves the topology of the built model unchanged, and in
\* every state the latest call built its own head from its own flattened
\* dimension, stored nothing in the model and succeeded.
C9_ForwardFrame == C9_TopologyFrozen /\ []C9_HeadPerCall

\* a successful call followed a successful call with another flattened dimension
C9_Witness == Called /\ changed /\ last.status = "ok"

(* ------------------------------- C10 ---------------------------------- *)
\* C10: with H, W >= 1 the spatial size after every layer run is at least 2
\* (convolution block S -> S+2, pooling S -> floor((S + 2*1 - 2)/2) + 1),
\* no pooling layer fails, and the flattened dimension forward computes is
\* positive.
C10_SpatialFloor ==
    Called =>
        /\ \A i \in 1..Len(last.trace) :
               LET e == last.trace[i]
                   l == layers[e.layer]
               IN  /\ IsPool(l) =>
                          /\ e.status = "ok"
                          /\ e.output[3] = (e.input[3] \div 2) + 1
                          /\ e.output[4] = (e.input[4] \div 2) + 1
                   /\ e.status = "ok" => (e.output[3] >= 2 /\ e.output[4] >= 2)
        /\ last.status = "ok" => last.dim > 0

\* three consecutive pooling layers ran on a 1x1 input
C10_Witness ==
    /\ Called /\ last.status = "ok" /\ last.input[3] = 1 /\ last.input[4] = 1
    /\ enc = Join(<<T09, T09, T09>>)

====
